---- MODULE Spec2Model ----
(***************************************************************************)
(* Model of skills/x-article-publisher/parse_markdown.py: the single-pass  *)
(* markdown scanner that builds the Document (title, cover_image,          *)
(* content_images, code_blocks, dividers, total_blocks, html).             *)
(*                                                                         *)
(* Text is modelled character by character: a Python str is a sequence of  *)
(* one-character strings, so that every regular expression and every       *)
(* strip()/split()/join() of the source is computed, not assumed.          *)
(* Python indexes from 0; sequences here index from 1, so the cursor i of   *)
(* the scan loop is the source's i + 1.                                    *)
(***************************************************************************)
EXTENDS Integers, Sequences, FiniteSets, TLC

----------------------------------------------------------------------------
(* Bounds of the explored inputs.                                          *)

\* Longest input (in lines) drawn from the full line vocabulary.
MaxLines == 3

\* Longest input (in lines) drawn from the short vocabulary CoreVocab.
MaxLongLines == 6

----------------------------------------------------------------------------
(* Character-level helpers: Python str methods.                            *)

NL == "\n"

\* Characters str.strip() and the regular expression class \s remove.
Whitespace == {" ", "\t", "\n"}

Digits == {"0", "1", "2", "3", "4", "5", "6", "7", "8", "9"}

Min(S) == CHOOSE x \in S : \A y \in S : x <= y

RECURSIVE LStripSet(_, _)
LStripSet(s, chars) ==
    IF s # <<>> /\ Head(s) \in chars THEN LStripSet(Tail(s), chars) ELSE s

RECURSIVE RStripSet(_, _)
RStripSet(s, chars) ==
    IF s # <<>> /\ s[Len(s)] \in chars
    THEN RStripSet(SubSeq(s, 1, Len(s) - 1), chars)
    ELSE s

\* str.strip()
Strip(s) == RStripSet(LStripSet(s, Whitespace), Whitespace)

\* str.startswith(p)
StartsWith(s, p) == Len(s) >= Len(p) /\ SubSeq(s, 1, Len(p)) = p

\* p occurs in s at (1-based) position k
OccursAt(s, p, k) ==
    k >= 1 /\ k + Len(p) - 1 <= Len(s) /\ SubSeq(s, k, k + Len(p) - 1) = p

\* str.find(p, from): the least position >= from where p occurs, 0 when none
\* (the source's -1).
Find(s, p, from) ==
    LET hits == {k \in from..(Len(s) - Len(p) + 1) : OccursAt(s, p, k)}
    IN  IF hits = {} THEN 0 ELSE Min(hits)

\* sep.join(parts)
RECURSIVE Join(_, _)
Join(parts, sep) ==
    IF parts = <<>> THEN <<>>
    ELSE IF Len(parts) = 1 THEN parts[1]
    ELSE parts[1] \o sep \o Join(Tail(parts), sep)

\* text.split("\n"): always at least one (possibly empty) line
RECURSIVE SplitLines(_)
SplitLines(text) ==
    LET k == Find(text, <<NL>>, 1)
    IN  IF k = 0 THEN <<text>>
        ELSE <<SubSeq(text, 1, k - 1)>> \o SplitLines(SubSeq(text, k + 1, Len(text)))

\* all characters of s from position k on are in chars
AllIn(s, k, chars) == \A j \in k..Len(s) : s[j] \in chars

\* number of leading characters of s equal to c
RECURSIVE LeadRun(_, _)
LeadRun(s, c) == IF s # <<>> /\ Head(s) = c THEN 1 + LeadRun(Tail(s), c) ELSE 0

\* number of leading characters of s that lie in chars
RECURSIVE LeadRunIn(_, _)
LeadRunIn(s, chars) ==
    IF s # <<>> /\ Head(s) \in chars THEN 1 + LeadRunIn(Tail(s), chars) ELSE 0

Dashes3 == <<"-", "-", "-">>
\* The backquote character (U+0060), which a TLA+ string literal cannot hold:
\* it is the one character written as a two-letter token.
BQ == "bq"

Fence3 == <<BQ, BQ, BQ>>

----------------------------------------------------------------------------
(* strip_frontmatter                                                       *)

strip_frontmatter(text) ==
    IF StartsWith(text, Dashes3)
    THEN LET end == Find(text, Dashes3, 4)
         IN  IF end # 0
             THEN LStripSet(SubSeq(text, end + 3, Len(text)), {NL})
             ELSE text
    ELSE text

----------------------------------------------------------------------------
(* inline_format: six re.sub passes, in the source's order.                *)

\* re.sub of  d(.+?)d  by  pre \1 post , scanning from position p: leftmost
\* match, shortest non-empty content, matches do not overlap.
RECURSIVE SubDelim(_, _, _, _, _)
SubDelim(text, p, d, pre, post) ==
    IF p > Len(text) THEN <<>>
    ELSE LET e == IF OccursAt(text, d, p)
                  THEN Find(text, d, p + Len(d) + 1)
                  ELSE 0
         IN  IF e # 0
             THEN pre \o SubSeq(text, p + Len(d), e - 1) \o post
                      \o SubDelim(text, e + Len(d), d, pre, post)
             ELSE <<text[p]>> \o SubDelim(text, p + 1, d, pre, post)

\* re.sub(r"BQ([^BQ]+)BQ", r"<strong>\1</strong>", text), BQ the backquote
RECURSIVE SubCode(_, _, _, _)
SubCode(text, p, pre, post) ==
    IF p > Len(text) THEN <<>>
    ELSE LET e == IF text[p] = BQ THEN Find(text, <<BQ>>, p + 1) ELSE 0
         IN  IF e >= p + 2
             THEN pre \o SubSeq(text, p + 1, e - 1) \o post
                      \o SubCode(text, e + 1, pre, post)
             ELSE <<text[p]>> \o SubCode(text, p + 1, pre, post)

\* re.sub(r"\[([^\]]+)\]\(([^)]+)\)", r'<a href="\2">\1</a>', text)
RECURSIVE SubLink(_, _)
SubLink(text, p) ==
    IF p > Len(text) THEN <<>>
    ELSE LET e1 == IF text[p] = "[" THEN Find(text, <<"]">>, p + 1) ELSE 0
             e2 == IF e1 >= p + 2 /\ OccursAt(text, <<"(">>, e1 + 1)
                   THEN Find(text, <<")">>, e1 + 2)
                   ELSE 0
         IN  IF e2 >= e1 + 3 /\ e1 # 0
             THEN <<"<", "a", " ", "h", "r", "e", "f", "=", "\"">>
                      \o SubSeq(text, e1 + 2, e2 - 1)
                      \o <<"\"", ">">>
                      \o SubSeq(text, p + 1, e1 - 1)
                      \o <<"<", "/", "a", ">">>
                      \o SubLink(text, e2 + 1)
             ELSE <<text[p]>> \o SubLink(text, p + 1)

StrongOpen == <<"<", "s", "t", "r", "o", "n", "g", ">">>
StrongClose == <<"<", "/", "s", "t", "r", "o", "n", "g", ">">>
EmOpen == <<"<", "e", "m", ">">>
EmClose == <<"<", "/", "e", "m", ">">>
DelOpen == <<"<", "d", "e", "l", ">">>
DelClose == <<"<", "/", "d", "e", "l", ">">>

\* Variant: the italic pass runs before the bold passes.
inline_formatItalicFirst(text) ==
    LET t1 == SubDelim(text, 1, <<"*">>, EmOpen, EmClose)
        t2 == SubDelim(t1, 1, <<"*", "*", "*">>,
                       StrongOpen \o EmOpen, EmClose \o StrongClose)
        t3 == SubDelim(t2, 1, <<"*", "*">>, StrongOpen, StrongClose)
        t4 == SubDelim(t3, 1, <<"~", "~">>, DelOpen, DelClose)
        t5 == SubCode(t4, 1, StrongOpen, StrongClose)
    IN  SubLink(t5, 1)

inline_format(text) ==
    LET t1 == SubDelim(text, 1, <<"*", "*", "*">>,
                       StrongOpen \o EmOpen, EmClose \o StrongClose)
        t2 == SubDelim(t1, 1, <<"*", "*">>, StrongOpen, StrongClose)
        t3 == SubDelim(t2, 1, <<"*">>, EmOpen, EmClose)
        t4 == SubDelim(t3, 1, <<"~", "~">>, DelOpen, DelClose)
        t5 == SubCode(t4, 1, StrongOpen, StrongClose)
    IN  SubLink(t5, 1)

----------------------------------------------------------------------------
(* Line classification: the regular expressions of the scan loop and of    *)
(* _is_block_start.                                                        *)

\* line.strip().startswith(the fence delimiter)
IsFence(line) == StartsWith(Strip(line), Fence3)

\* re.match(r"^# (.+)$", line), on the raw line
H1Match(line) == Len(line) >= 3 /\ line[1] = "#" /\ line[2] = " "

\* h1_match.group(1).strip()
H1Text(line) == Strip(SubSeq(line, 3, Len(line)))

\* re.match(r"^!\[([^\]]*)\]\(([^)]+)\)\s*$", s): the alt text ends at the
\* first "]", the path at the first ")" after "](".
ImgAltEnd(s) == Find(s, <<"]">>, 3)

ImgPathEnd(s) == Find(s, <<")">>, ImgAltEnd(s) + 2)

ImgMatch(s) ==
    /\ StartsWith(s, <<"!", "[">>)
    /\ ImgAltEnd(s) # 0
    /\ OccursAt(s, <<"(">>, ImgAltEnd(s) + 1)
    /\ ImgPathEnd(s) >= ImgAltEnd(s) + 3
    /\ AllIn(s, ImgPathEnd(s) + 1, Whitespace)

\* img_match.group(2).strip()
ImgPath(s) == Strip(SubSeq(s, ImgAltEnd(s) + 2, ImgPathEnd(s) - 1))

\* re.match(r"^---+\s*$", s) or re.match(r"^\*\*\*+\s*$", s)
RuleOf(s, c) == LeadRun(s, c) >= 3 /\ AllIn(s, LeadRun(s, c) + 1, Whitespace)

IsDivider(s) == RuleOf(s, "-") \/ RuleOf(s, "*")

\* re.match(r"^(#{2,6}) (.+)$", line), on the raw line
HMatch(line) ==
    LET k == LeadRun(line, "#")
    IN  k >= 2 /\ k <= 6 /\ Len(line) >= k + 2 /\ line[k + 1] = " "

\* len(h_match.group(1))
HLevel(line) == LeadRun(line, "#")

\* h_match.group(2).strip()
HText(line) == Strip(SubSeq(line, LeadRun(line, "#") + 2, Len(line)))

\* s.startswith("> ")
IsQuote(s) == StartsWith(s, <<">", " ">>)

\* re.match(r"^[-*+] ", s)
IsUL(s) == Len(s) >= 2 /\ s[1] \in {"-", "*", "+"} /\ s[2] = " "

\* re.match(r"^\s*[-*+] ", line), the test of the list run's inner loop
IsULRun(line) == IsUL(LStripSet(line, Whitespace))

\* re.sub(r"^\s*[-*+] ", "", line).strip()
ULItem(line) ==
    LET t == LStripSet(line, Whitespace) IN Strip(SubSeq(t, 3, Len(t)))

\* re.match(r"^\d+\. ", s)
IsOL(s) ==
    LET k == LeadRunIn(s, Digits)
    IN  k >= 1 /\ Len(s) >= k + 2 /\ s[k + 1] = "." /\ s[k + 2] = " "

\* re.match(r"^\s*\d+\. ", line)
IsOLRun(line) == IsOL(LStripSet(line, Whitespace))

\* re.sub(r"^\s*\d+\. ", "", line).strip()
OLItem(line) ==
    LET t == LStripSet(line, Whitespace)
    IN  Strip(SubSeq(t, LeadRunIn(t, Digits) + 3, Len(t)))

\* re.match(r"^\|.+\|", s)
IsTableRow(s) == Len(s) >= 3 /\ s[1] = "|" /\ \E j \in 3..Len(s) : s[j] = "|"

\* re.match(r"^\s*\|.+\|", line)
IsTableRun(line) == IsTableRow(LStripSet(line, Whitespace))

_is_block_start(line) ==
    LET s == Strip(line)
    IN  \/ s = <<>>
        \/ (LeadRun(s, "#") \in 1..6
              /\ Len(s) > LeadRun(s, "#") /\ s[LeadRun(s, "#") + 1] = " ")
        \/ IsQuote(s)
        \/ IsUL(s)
        \/ IsOL(s)
        \/ StartsWith(s, Fence3)
        \/ IsDivider(s)
        \/ StartsWith(s, <<"!", "[">>)
        \/ IsTableRow(s)

\* a paragraph run continues over this line (the while condition of the
\* paragraph branch)
IsParaRun(line) == Strip(line) # <<>> /\ ~_is_block_start(line)

\* lines[i].strip().startswith("> "), the test of the blockquote inner loop
QuoteRun(line) == IsQuote(Strip(line))

\* The cursor after the inner while loop of a run: the first position from
\* `from` on that is past the end or whose line fails the loop's test;
\* hits[k] tells whether line k passes the test.
RunEnd(hits, from) ==
    Min({j \in from..(Len(hits) + 1) : j = Len(hits) + 1 \/ ~hits[j]})

QuoteRunEnd(ls, from) == RunEnd([k \in 1..Len(ls) |-> QuoteRun(ls[k])], from)

ULRunEnd(ls, from) == RunEnd([k \in 1..Len(ls) |-> IsULRun(ls[k])], from)

OLRunEnd(ls, from) == RunEnd([k \in 1..Len(ls) |-> IsOLRun(ls[k])], from)

TableRunEnd(ls, from) == RunEnd([k \in 1..Len(ls) |-> IsTableRun(ls[k])], from)

ParaRunEnd(ls, from) == RunEnd([k \in 1..Len(ls) |-> IsParaRun(ls[k])], from)

----------------------------------------------------------------------------
(* Image path resolution.                                                  *)

\* md_dir: the directory of the source document, an absolute path.
MdDir == <<"/", "d">>

\* path.split("/")
RECURSIVE SplitSlash(_)
SplitSlash(path) ==
    LET k == Find(path, <<"/">>, 1)
    IN  IF k = 0 THEN <<path>>
        ELSE <<SubSeq(path, 1, k - 1)>> \o SplitSlash(SubSeq(path, k + 1, Len(path)))

\* The component loop of os.path.normpath on an absolute path: "" and "."
\* are skipped, ".." removes the last kept component (or nothing at the root).
RECURSIVE NormComps(_, _)
NormComps(comps, kept) ==
    IF comps = <<>> THEN kept
    ELSE IF Head(comps) \in {<<>>, <<".">>} THEN NormComps(Tail(comps), kept)
    ELSE IF Head(comps) = <<".", ".">>
         THEN NormComps(Tail(comps),
                        IF kept = <<>> THEN kept ELSE SubSeq(kept, 1, Len(kept) - 1))
    ELSE NormComps(Tail(comps), Append(kept, Head(comps)))

\* os.path.normpath(os.path.join(md_dir, img_path)) for a relative img_path
NormJoin(dir, path) ==
    <<"/">> \o Join(NormComps(SplitSlash(dir \o <<"/">> \o path), <<>>), <<"/">>)

\* os.path.isabs(img_path)
IsAbs(path) == StartsWith(path, <<"/">>)

\* the path recorded for a standalone image
ResolveImage(img_path) ==
    IF ~IsAbs(img_path) /\ ~StartsWith(img_path, <<"h", "t", "t", "p">>)
    THEN NormJoin(MdDir, img_path)
    ELSE img_path

----------------------------------------------------------------------------
(* HTML blocks appended to body_lines.                                      *)

\* f"<{tag}>{text}</{tag}>"
Wrap(tag, text) == <<"<">> \o tag \o <<">">> \o text \o <<"<", "/">> \o tag \o <<">">>

\* the decimal digit of a heading level
LevelDigit(level) == <<"0", "1", "2", "3", "4", "5", "6">>[level + 1]

\* f"<h{level}>{text}</h{level}>"
HeadingBlock(level, text) == Wrap(<<"h", LevelDigit(level)>>, text)

ParaBlock(text) == Wrap(<<"p">>, text)

QuoteBlock(text) == Wrap(<<"b", "l", "o", "c", "k", "q", "u", "o", "t", "e">>, text)

ListItem(text) == Wrap(<<"l", "i">>, inline_format(text))

\* "<ul>" + "".join(items) + "</ul>"
ULBlock(items) == Wrap(<<"u", "l">>, Join(items, <<>>))

OLBlock(items) == Wrap(<<"o", "l">>, Join(items, <<>>))

\* the language of a table entry
TableLang == <<"_", "_", "t", "a", "b", "l", "e", "_", "_">>

\* the language of a fenced block opened without a language tag
TextLang == <<"t", "e", "x", "t">>

\* cover_image = None
NoImage == <<>>

----------------------------------------------------------------------------
(* Inputs: the lines a markdown file is made of.                           *)

\* One line of every kind the scanner distinguishes, and the edge forms of
\* each kind (indented, malformed, blank text).
LineVocab ==
    { <<>>,                                      \* blank line
      <<" ">>,                                   \* whitespace only
      Fence3,                                    \* fence, no language
      Fence3 \o <<"p", "y">>,                    \* fence with a language tag
      <<"#", " ", "A">>,                         \* top-level heading
      <<"#", " ", " ">>,                         \* top-level heading, blank text
      <<" ", "#", " ", "B">>,                    \* indented top-level heading
      <<"#", "#", " ", "C">>,                    \* level-2 heading
      <<"!", "[", "a", "]", "(", "x", ")">>,     \* standalone image
      <<"!", "[", "a">>,                         \* unfinished image reference
      <<"-", "-", "-">>,                         \* divider (and frontmatter marker)
      <<">", " ", "q">>,                         \* blockquote line
      <<"-", " ", "u">>,                         \* unordered list item
      <<"1", ".", " ", "o">>,                    \* ordered list item
      <<"|", "a", "|">>,                         \* table row
      <<" ", "|", "-", "|">>,                    \* indented separator row
      <<"t">>,                                   \* plain text
      <<"*", "e", "*">> }                        \* text with an inline span

\* A short vocabulary for longer documents.
CoreVocab ==
    { Fence3,
      <<"t">>,
      <<"|", "a", "|">>,
      <<"!", "[", "]", "(", "y", ")">>,
      <<"*", "*", "*">> }

\* The documents explored: every sequence of 1..MaxLines lines of LineVocab
\* and every sequence of 1..MaxLongLines lines of CoreVocab.
InputLines ==
    (UNION {[1..n -> LineVocab] : n \in 1..MaxLines})
        \cup (UNION {[1..n -> CoreVocab] : n \in 1..MaxLongLines})

----------------------------------------------------------------------------
(* State of one call of parse_markdown.                                    *)

VARIABLES
    content,            \* the text read from the file
    lines,              \* content.split("\n") after strip_frontmatter
    i,                  \* the line cursor (source's i + 1)
    title,
    cover_image,
    content_images,     \* sequence of [path, block_index]
    code_blocks,        \* sequence of [language, code, block_index]
    dividers,           \* sequence of block_index
    body_lines,         \* the HTML blocks emitted so far
    in_code_block,
    code_lang,
    code_content,
    first_image_seen,
    block_index,
    pc,                 \* "read", "scan" (the while loop), "done" (returned)
    html,               \* returned "html"
    total_blocks,       \* returned "total_blocks"
    visited,            \* the cursor at the start of each loop iteration so far
    argv,               \* sys.argv[1:] of a command-line run
    file_exists,        \* os.path.exists(os.path.expanduser(filepath))
    stdout,             \* what the run printed to standard output
    stderr,             \* what the run printed to standard error
    exit_status,        \* <<>> while running, <<n>> after sys.exit(n) or a return
    cli,                \* position in main(); "lib" for a direct call of
                        \* parse_markdown
    fmt,                \* a text and the results of successive inline_format calls
    watcher,            \* per pid: the locals of that process's watch() call
    files,              \* the state file and its ".tmp" sibling on disk
    watched,            \* the watched markdown file: present or not, st_mtime
    stopper,            \* the process running stop(): its position and pid read
    observed            \* what the polling agent's last open of the state file saw

vars == <<content, lines, i, title, cover_image, content_images, code_blocks,
          dividers, body_lines, in_code_block, code_lang, code_content,
          first_image_seen, block_index, pc, html, total_blocks, visited,
          argv, file_exists, stdout, stderr, exit_status, cli, fmt,
          watcher, files, watched, stopper, observed>>

\* the processes and files of sync_watcher.py
sync == <<watcher, files, watched, stopper, observed>>

\* process ids of the watcher processes
Pids == {1, 2}

\* a path with nothing at it, and a file holding text: <<>> is the file just
\* opened with "w", <<state>> the file after json.dump(state) and close
NoFile == [exists |-> FALSE, text |-> <<>>]

File(text) == [exists |-> TRUE, text |-> text]

\* a pid no process of this run has: watch() never called for it
Absent ==
    [pc |-> "absent", last_mtime |-> 0, change_count |-> 0, running |-> FALSE,
     fd |-> "none"]

\* no watcher, no stop(), no state file
NoWatcher ==
    /\ watcher = [w \in Pids |-> Absent]
    /\ files = [state |-> NoFile, tmp |-> NoFile]
    /\ watched = [exists |-> FALSE, mtime |-> 0]
    /\ stopper = [pc |-> "done", pid |-> 0, left |-> 0]
    /\ observed = NoFile

\* what a call of parse_markdown never touches
outside == <<argv, file_exists, stdout, stderr, exit_status, cli, fmt, sync>>

\* parse_markdown imported and called directly: no command line, no output
NoProcess ==
    /\ argv = <<>>
    /\ file_exists = TRUE
    /\ stdout = <<>>
    /\ stderr = <<>>
    /\ exit_status = <<>>
    /\ cli = "lib"
    /\ fmt = <<>>
    /\ NoWatcher

Init ==
    /\ \E src \in InputLines : content = Join(src, <<NL>>)
    /\ lines = <<>>
    /\ i = 1
    /\ title = <<>>
    /\ cover_image = NoImage
    /\ content_images = <<>>
    /\ code_blocks = <<>>
    /\ dividers = <<>>
    /\ body_lines = <<>>
    /\ in_code_block = FALSE
    /\ code_lang = <<>>
    /\ code_content = <<>>
    /\ first_image_seen = FALSE
    /\ block_index = 0
    /\ pc = "read"
    /\ html = <<>>
    /\ total_blocks = 0
    /\ visited = <<>>
    /\ NoProcess

\* content = strip_frontmatter(f.read()); lines = content.split("\n")
Load ==
    /\ pc = "read"
    /\ lines' = SplitLines(strip_frontmatter(content))
    /\ pc' = "scan"
    /\ UNCHANGED <<content, i, title, cover_image, content_images, code_blocks,
                   dividers, body_lines, in_code_block, code_lang, code_content,
                   first_image_seen, block_index, html, total_blocks, visited,
                   outside>>

\* the loop is at a line: while i < len(lines)
AtLine == pc = "scan" /\ i <= Len(lines)

\* one more pass through the loop body, begun at the cursor
Iteration == visited' = Append(visited, i)

----------------------------------------------------------------------------
(* The scan loop: one action per branch of the loop body, guarded by the   *)
(* branch's condition and the failure of every earlier branch.             *)

\* {"language": ..., "code": ..., "block_index": block_index}
CodeEntry(language, code, index) ==
    [language |-> language, code |-> code, block_index |-> index]

\* Variant: the index is recorded as if the image were a block of its own.
ImageEntryNext(path, index) == [path |-> path, block_index |-> index + 1]

\* {"path": img_path, "block_index": block_index}
ImageEntry(path, index) == [path |-> path, block_index |-> index]

\* Variant: the table lines are kept as read, without strip().
TableLineRaw(line) == line

\* table_lines.append(lines[i].strip())
TableLine(line) == Strip(line)

\* variables no branch of the loop writes
fixed == <<content, lines, pc, html, total_blocks, outside>>

\* --- Code block detection: opening fence
OpenFence ==
    /\ AtLine
    /\ Iteration
    /\ IsFence(lines[i])
    /\ ~in_code_block
    /\ in_code_block' = TRUE
    /\ code_lang' = Strip(LStripSet(Strip(lines[i]), {BQ}))
    /\ code_content' = <<>>
    /\ i' = i + 1
    /\ UNCHANGED <<fixed, title, cover_image, content_images, code_blocks,
                   dividers, body_lines, first_image_seen, block_index>>

\* Variant: the captured text is tested without strip().
HasCodeUntrimmed(code_text) == code_text # <<>>

\* if code_text.strip():
HasCode(code_text) == Strip(code_text) # <<>>

\* --- Code block detection: closing fence
CloseFence ==
    /\ AtLine
    /\ Iteration
    /\ IsFence(lines[i])
    /\ in_code_block
    /\ in_code_block' = FALSE
    /\ LET code_text == Join(code_content, <<NL>>)
       IN  IF HasCode(code_text)
           THEN /\ code_blocks' = Append(code_blocks,
                        CodeEntry(IF code_lang # <<>> THEN code_lang ELSE TextLang,
                                  code_text, block_index))
                /\ block_index' = block_index + 1
           ELSE UNCHANGED <<code_blocks, block_index>>
    /\ code_lang' = <<>>
    /\ code_content' = <<>>
    /\ i' = i + 1
    /\ UNCHANGED <<fixed, title, cover_image, content_images, dividers,
                   body_lines, first_image_seen>>

\* Variant: the line is trimmed before it is kept.
CodeLineTextStripped(line) == Strip(line)

\* code_content.append(line)
CodeLineText(line) == line

\* --- a line inside an open fence
CodeLine ==
    /\ AtLine
    /\ Iteration
    /\ ~IsFence(lines[i])
    /\ in_code_block
    /\ code_content' = Append(code_content, CodeLineText(lines[i]))
    /\ i' = i + 1
    /\ UNCHANGED <<fixed, title, cover_image, content_images, code_blocks,
                   dividers, body_lines, in_code_block, code_lang,
                   first_image_seen, block_index>>

\* the line is outside any fence
InNormal == AtLine /\ ~IsFence(lines[i]) /\ ~in_code_block

\* if h1_match and not title
TitleHit == H1Match(lines[i]) /\ title = <<>>

\* --- H1 title extraction
TitleLine ==
    /\ InNormal
    /\ Iteration
    /\ TitleHit
    /\ title' = H1Text(lines[i])
    /\ i' = i + 1
    /\ UNCHANGED <<fixed, cover_image, content_images, code_blocks, dividers,
                   body_lines, in_code_block, code_lang, code_content,
                   first_image_seen, block_index>>

PastTitle == InNormal /\ ~TitleHit

\* Variant: the first image is the cover and a content image as well.
ImageLineDup ==
    /\ PastTitle
    /\ Iteration
    /\ ImgMatch(Strip(lines[i]))
    /\ LET img_path == ResolveImage(ImgPath(Strip(lines[i])))
       IN  /\ content_images' = Append(content_images,
                    ImageEntry(img_path, block_index))
           /\ IF ~first_image_seen
              THEN cover_image' = img_path /\ first_image_seen' = TRUE
              ELSE UNCHANGED <<cover_image, first_image_seen>>
    /\ i' = i + 1
    /\ UNCHANGED <<fixed, title, code_blocks, dividers, body_lines,
                   in_code_block, code_lang, code_content, block_index>>

\* --- Image detection
ImageLine ==
    /\ PastTitle
    /\ Iteration
    /\ ImgMatch(Strip(lines[i]))
    /\ LET img_path == ResolveImage(ImgPath(Strip(lines[i])))
       IN  IF ~first_image_seen
           THEN /\ cover_image' = img_path
                /\ first_image_seen' = TRUE
                /\ UNCHANGED content_images
           ELSE /\ content_images' = Append(content_images,
                        ImageEntry(img_path, block_index))
                /\ UNCHANGED <<cover_image, first_image_seen>>
    /\ i' = i + 1
    /\ UNCHANGED <<fixed, title, code_blocks, dividers, body_lines,
                   in_code_block, code_lang, code_content, block_index>>

PastImage == PastTitle /\ ~ImgMatch(Strip(lines[i]))

\* Variant: a divider takes a block slot.
DividerLineCounts ==
    /\ pc = "scan" /\ i <= Len(lines)
    /\ Iteration
    /\ ~IsFence(lines[i]) /\ ~in_code_block
    /\ ~(H1Match(lines[i]) /\ title = <<>>)
    /\ ~ImgMatch(Strip(lines[i]))
    /\ IsDivider(Strip(lines[i]))
    /\ dividers' = Append(dividers, block_index)
    /\ block_index' = block_index + 1
    /\ i' = i + 1
    /\ UNCHANGED <<fixed, title, cover_image, content_images, code_blocks,
                   body_lines, in_code_block, code_lang, code_content,
                   first_image_seen>>

\* --- Divider detection
DividerLine ==
    /\ PastImage
    /\ Iteration
    /\ IsDivider(Strip(lines[i]))
    /\ dividers' = Append(dividers, block_index)
    /\ i' = i + 1
    /\ UNCHANGED <<fixed, title, cover_image, content_images, code_blocks,
                   body_lines, in_code_block, code_lang, code_content,
                   first_image_seen, block_index>>

PastDivider == PastImage /\ ~IsDivider(Strip(lines[i]))

\* --- Skip blank lines between blocks
BlankLine ==
    /\ PastDivider
    /\ Iteration
    /\ Strip(lines[i]) = <<>>
    /\ i' = i + 1
    /\ UNCHANGED <<fixed, title, cover_image, content_images, code_blocks,
                   dividers, body_lines, in_code_block, code_lang, code_content,
                   first_image_seen, block_index>>

PastBlank == PastDivider /\ Strip(lines[i]) # <<>>

\* what every block-emitting branch leaves alone
emitFrame == <<fixed, title, cover_image, content_images, code_blocks, dividers,
               in_code_block, code_lang, code_content, first_image_seen>>

\* Variant: the block is appended but the counter is not advanced.
EmitNoCount(block, next) ==
    /\ body_lines' = Append(body_lines, block)
    /\ i' = next
    /\ UNCHANGED <<emitFrame, block_index>>

\* body_lines.append(block); block_index += 1; the cursor moves to next
Emit(block, next) ==
    /\ body_lines' = Append(body_lines, block)
    /\ block_index' = block_index + 1
    /\ i' = next
    /\ UNCHANGED emitFrame

\* --- Headers (H2-H6)
SubHeading ==
    /\ PastBlank
    /\ Iteration
    /\ HMatch(lines[i])
    /\ Emit(HeadingBlock(HLevel(lines[i]), inline_format(HText(lines[i]))), i + 1)

PastHeading == PastBlank /\ ~HMatch(lines[i])

\* --- Blockquote
Blockquote ==
    /\ PastHeading
    /\ Iteration
    /\ IsQuote(Strip(lines[i]))
    /\ LET next == QuoteRunEnd(lines, i)
           quote_lines == [k \in 1..(next - i) |->
                              LET s == Strip(lines[i + k - 1]) IN SubSeq(s, 3, Len(s))]
       IN  Emit(QuoteBlock(inline_format(Join(quote_lines, <<" ">>))), next)

PastQuote == PastHeading /\ ~IsQuote(Strip(lines[i]))

\* --- Unordered list
UnorderedList ==
    /\ PastQuote
    /\ Iteration
    /\ IsUL(Strip(lines[i]))
    /\ LET next == ULRunEnd(lines, i)
           items == [k \in 1..(next - i) |-> ListItem(ULItem(lines[i + k - 1]))]
       IN  Emit(ULBlock(items), next)

PastUL == PastQuote /\ ~IsUL(Strip(lines[i]))

\* --- Ordered list
OrderedList ==
    /\ PastUL
    /\ Iteration
    /\ IsOL(Strip(lines[i]))
    /\ LET next == OLRunEnd(lines, i)
           items == [k \in 1..(next - i) |-> ListItem(OLItem(lines[i + k - 1]))]
       IN  Emit(OLBlock(items), next)

PastOL == PastUL /\ ~IsOL(Strip(lines[i]))

\* --- Table detection
Table ==
    /\ PastOL
    /\ Iteration
    /\ IsTableRow(Strip(lines[i]))
    /\ LET next == TableRunEnd(lines, i)
           table_lines == [k \in 1..(next - i) |-> TableLine(lines[i + k - 1])]
       IN  /\ IF Len(table_lines) >= 2
              THEN /\ code_blocks' = Append(code_blocks,
                           CodeEntry(TableLang, Join(table_lines, <<NL>>),
                                     block_index))
                   /\ block_index' = block_index + 1
              ELSE UNCHANGED <<code_blocks, block_index>>
           /\ i' = next
    /\ UNCHANGED <<fixed, title, cover_image, content_images, dividers,
                   body_lines, in_code_block, code_lang, code_content,
                   first_image_seen>>

PastTable == PastOL /\ ~IsTableRow(Strip(lines[i]))

\* --- Regular paragraph: consecutive non-empty lines that start no block
Paragraph ==
    /\ PastTable
    /\ Iteration
    /\ LET next == ParaRunEnd(lines, i)
           para_lines == [k \in 1..(next - i) |-> Strip(lines[i + k - 1])]
       IN  /\ next > i
           /\ Emit(ParaBlock(inline_format(Join(para_lines, <<" ">>))), next)

\* Variant: the cursor stays when no paragraph line was collected.
AfterLineStuck(k) == k

\* i += 1
AfterLine(k) == k + 1

\* --- the trailing i += 1, reached when para_lines is empty
SkipLine ==
    /\ PastTable
    /\ Iteration
    /\ ParaRunEnd(lines, i) = i
    /\ i' = AfterLine(i)
    /\ UNCHANGED <<fixed, title, cover_image, content_images, code_blocks,
                   dividers, body_lines, in_code_block, code_lang, code_content,
                   first_image_seen, block_index>>

\* Variant: total_blocks counts the HTML blocks only.
ReturnedTotalHtml == Len(body_lines)

\* "total_blocks": block_index
ReturnedTotal == block_index

\* Variant: a block still open at the end of the input is stored.
ReturnedCodeBlocksFlushed ==
    IF in_code_block
    THEN Append(code_blocks,
                CodeEntry(IF code_lang # <<>> THEN code_lang ELSE TextLang,
                          Join(code_content, <<NL>>), block_index))
    ELSE code_blocks

\* "code_blocks": code_blocks
ReturnedCodeBlocks == code_blocks

\* html = "\n".join(body_lines); return {...}
Return ==
    /\ pc = "scan"
    /\ i > Len(lines)
    /\ html' = Join(body_lines, <<NL>>)
    /\ total_blocks' = ReturnedTotal
    /\ code_blocks' = ReturnedCodeBlocks
    /\ pc' = "done"
    /\ UNCHANGED <<content, lines, i, title, cover_image, content_images,
                   dividers, body_lines, in_code_block, code_lang,
                   code_content, first_image_seen, block_index, visited, outside>>

Next ==
    \/ Load
    \/ OpenFence
    \/ CloseFence
    \/ CodeLine
    \/ TitleLine
    \/ ImageLine
    \/ DividerLine
    \/ BlankLine
    \/ SubHeading
    \/ Blockquote
    \/ UnorderedList
    \/ OrderedList
    \/ Table
    \/ Paragraph
    \/ SkipLine
    \/ Return

Spec == Init /\ [][Next]_vars

\* The locals of parse_markdown with their initial values (lines 44-58), text
\* being the content of the file and at the position of the call: "idle"
\* before it, "read" at entry.
ParseState(text, at) ==
    /\ content = text
    /\ lines = <<>>
    /\ i = 1
    /\ title = <<>>
    /\ cover_image = NoImage
    /\ content_images = <<>>
    /\ code_blocks = <<>>
    /\ dividers = <<>>
    /\ body_lines = <<>>
    /\ in_code_block = FALSE
    /\ code_lang = <<>>
    /\ code_content = <<>>
    /\ first_image_seen = FALSE
    /\ block_index = 0
    /\ pc = at
    /\ html = <<>>
    /\ total_blocks = 0
    /\ visited = <<>>

ParseEntry(text) == ParseState(text, "read")

----------------------------------------------------------------------------
(* The same scan over documents of lines at the edges of the patterns: a   *)
(* fence whose tag is the table language, list markers with no item text,  *)
(* image paths of every kind.                                              *)

MaxEdgeLines == 3

ImageOf(path) == <<"!", "[", "]", "(">> \o path \o <<")">>

EdgePaths ==
    { <<"/", "x">>,
      <<"h", "t", "t", "p", ":", "/", "/", "h">>,
      <<"f", "t", "p", ":", "/", "/", "h">>,
      <<"h", "t", "t", "p", "x">>,
      <<".", ".", "/", "x">> }

EdgeVocab ==
    { Fence3 \o TableLang,
      Fence3,
      <<>>,
      <<"t">>,
      <<"#", " ", "A">>,
      <<"#", "#", " ", "C">>,
      <<"*", "*", "*">>,
      <<">", " ", "q">>,
      <<"-", " ", "u">>,
      <<"-", " ">>,
      <<"1", ".", " ", "o">>,
      <<"|", "a", "|">> }
        \cup { ImageOf(path) : path \in EdgePaths }

EdgeInputs == UNION {[1..n -> EdgeVocab] : n \in 1..MaxEdgeLines}

InitEdge ==
    /\ \E src \in EdgeInputs : ParseEntry(Join(src, <<NL>>))
    /\ NoProcess

SpecEdge == InitEdge /\ [][Next]_vars

----------------------------------------------------------------------------
(* strip_frontmatter alone: the file is read and split into lines, over    *)
(* texts made of marker lines, plain lines, blank lines and lines with a   *)
(* triple dash inside.                                                     *)

MaxFrontLines == 4

FrontVocab ==
    { Dashes3,
      <<"a">>,
      <<>>,
      <<"a", "-", "-", "-", "b">> }

FrontInputs == UNION {[1..n -> FrontVocab] : n \in 1..MaxFrontLines}

InitFront ==
    /\ \E src \in FrontInputs : ParseEntry(Join(src, <<NL>>))
    /\ NoProcess

SpecFront == InitFront /\ [][Load]_vars

----------------------------------------------------------------------------
(* inline_format alone, applied to a text and again to its own result,     *)
(* over texts made of plain characters, markers and complete links.        *)

MaxFormatTokens == 4

FormatTokens ==
    { <<"a">>,
      <<"*">>,
      <<"*", "*">>,
      <<"~", "~">>,
      <<BQ>>,
      <<"[", "a", "]">>,
      <<"[", "a", "]", "(", "a", ")">> }

RECURSIVE Concat(_)
Concat(parts) == IF parts = <<>> THEN <<>> ELSE parts[1] \o Concat(Tail(parts))

FormatInputs ==
    { Concat(toks) : toks \in UNION {[1..n -> FormatTokens] : n \in 1..MaxFormatTokens} }

InitFormat ==
    /\ ParseState(<<>>, "idle")
    /\ argv = <<>>
    /\ file_exists = FALSE
    /\ stdout = <<>>
    /\ stderr = <<>>
    /\ exit_status = <<>>
    /\ cli = "format"
    /\ \E text \in FormatInputs : fmt = <<text>>
    /\ NoWatcher

\* inline_format applied to the last result; twice in all
Format ==
    /\ cli = "format"
    /\ Len(fmt) \in 1..2
    /\ fmt' = Append(fmt, inline_format(fmt[Len(fmt)]))
    /\ UNCHANGED <<content, lines, i, title, cover_image, content_images,
                   code_blocks, dividers, body_lines, in_code_block, code_lang,
                   code_content, first_image_seen, block_index, pc, html,
                   total_blocks, visited, argv, file_exists, stdout, stderr,
                   exit_status, cli, sync>>

SpecFormat == InitFormat /\ [][Format]_vars

----------------------------------------------------------------------------
(* main(): the command line run. The file named by the first argument      *)
(* exists or not; when it does, parse_markdown is called on it and the     *)
(* Document is printed.                                                    *)

MaxMainLines == 3

\* sys.argv[1], a path that expanduser leaves as it is
FilePath == <<"f", ".", "m", "d">>

MainInputs == UNION {[1..n -> LineVocab] : n \in 1..MaxMainLines}

InitMain ==
    /\ \/ /\ argv = <<>>
          /\ file_exists = FALSE
          /\ ParseState(<<>>, "idle")
       \/ /\ argv = <<FilePath>>
          /\ file_exists = FALSE
          /\ ParseState(<<>>, "idle")
       \/ /\ argv = <<FilePath>>
          /\ file_exists = TRUE
          /\ \E src \in MainInputs : ParseState(Join(src, <<NL>>), "idle")
    /\ stdout = <<>>
    /\ stderr = <<>>
    /\ exit_status = <<>>
    /\ cli = "main"
    /\ fmt = <<>>
    /\ NoWatcher

\* what main() leaves alone before and after the call of parse_markdown
parseVars == <<content, lines, i, title, cover_image, content_images,
               code_blocks, dividers, body_lines, in_code_block, code_lang,
               code_content, first_image_seen, block_index, html, total_blocks,
               visited>>

UsageMessage ==
    <<"U", "s", "a", "g", "e", ":", " ", "p", "y", "t", "h", "o", "n", "3", " ",
      "p", "a", "r", "s", "e", "_", "m", "a", "r", "k", "d", "o", "w", "n", ".",
      "p", "y", " ", "/", "p", "a", "t", "h", "/", "t", "o", "/", "a", "r", "t",
      "i", "c", "l", "e", ".", "m", "d">>

\* f"Error: File not found: {filepath}"
NotFoundMessage(filepath) ==
    <<"E", "r", "r", "o", "r", ":", " ", "F", "i", "l", "e", " ", "n", "o", "t",
      " ", "f", "o", "u", "n", "d", ":", " ">> \o filepath

\* if len(sys.argv) < 2: usage on stderr, sys.exit(1)
MainUsage ==
    /\ cli = "main"
    /\ Len(argv) + 1 < 2
    /\ stderr' = Append(stderr, UsageMessage)
    /\ exit_status' = <<1>>
    /\ cli' = "exited"
    /\ UNCHANGED <<parseVars, pc, argv, file_exists, stdout, fmt, sync>>

\* Variant: the existence of the file is not tested.
FileFoundAlways == TRUE

\* os.path.exists(os.path.expanduser(filepath))
FileFound == file_exists

\* if not os.path.exists(...): message on stderr, sys.exit(1)
MainNotFound ==
    /\ cli = "main"
    /\ Len(argv) + 1 >= 2
    /\ ~FileFound
    /\ stderr' = Append(stderr, NotFoundMessage(argv[1]))
    /\ exit_status' = <<1>>
    /\ cli' = "exited"
    /\ UNCHANGED <<parseVars, pc, argv, file_exists, stdout, fmt, sync>>

\* result = parse_markdown(filepath): the call
MainParse ==
    /\ cli = "main"
    /\ Len(argv) + 1 >= 2
    /\ FileFound
    /\ pc = "idle"
    /\ pc' = "read"
    /\ cli' = "parsing"
    /\ UNCHANGED <<parseVars, argv, file_exists, stdout, stderr, exit_status, fmt, sync>>

\* JSON null, the serialization of None
JsonNull == <<"n", "u", "l", "l">>

\* the dict returned by parse_markdown as json.dumps writes it: the members in
\* insertion order, each a name and a value
JsonResult ==
    << <<"title", title>>,
       <<"cover_image", IF first_image_seen THEN cover_image ELSE JsonNull>>,
       <<"content_images", content_images>>,
       <<"code_blocks", code_blocks>>,
       <<"dividers", dividers>>,
       <<"total_blocks", total_blocks>>,
       <<"html", html>> >>

\* print(json.dumps(result, indent=2, ensure_ascii=False)); main returns
MainPrint ==
    /\ cli = "parsing"
    /\ pc = "done"
    /\ stdout' = Append(stdout, JsonResult)
    /\ exit_status' = <<0>>
    /\ cli' = "exited"
    /\ UNCHANGED <<parseVars, pc, argv, file_exists, stderr, fmt, sync>>

NextMain ==
    \/ MainUsage
    \/ MainNotFound
    \/ MainParse
    \/ Next
    \/ MainPrint

SpecMain == InitMain /\ [][NextMain]_vars

----------------------------------------------------------------------------
(* sync_watcher.py: watch() polls the mtime of a markdown file and keeps a  *)
(* JSON state file; stop() reads the pid from that file and signals it.     *)
(* The state dict is modelled by its pid, last_mtime, change_count and      *)
(* status members.                                                          *)

\* writes of the watched file by its editor
MaxTouches == 2

\* runs of "sync_watcher.py --stop"
MaxStops == 1

parserSide ==
    <<parseVars, pc, argv, file_exists, stdout, stderr, exit_status, cli, fmt>>

\* the path write_state writes before os.replace moves it onto the state file
TmpPathInPlace == "state"

TmpPath == "tmp"

\* the dict watch() passes to write_state
StateOf(w) ==
    [pid |-> w, last_mtime |-> watcher[w].last_mtime,
     change_count |-> watcher[w].change_count, status |-> "watching"]

\* json.dump: the whole document, or nothing yet
dump(data) == <<data>>

\* read_state: None (<<>>) for a missing file and for text json.load rejects
read_state(f) ==
    IF ~f.exists THEN <<>>
    ELSE IF f.text = <<>> THEN <<>>
    ELSE <<f.text[1]>>

\* where an open file is found after os.replace(src, dst)
Renamed(fd, src, dst) ==
    IF src = dst THEN fd
    ELSE IF fd = src THEN dst
    ELSE IF fd = dst THEN "gone"
    ELSE fd

\* where an open file is found after os.unlink(path)
Unlinked(fd, path) == IF fd = path THEN "gone" ELSE fd

\* cleanup: os.unlink(state_file), a missing file ignored
cleanupKeeps(fs) == fs

cleanup(fs) == [fs EXCEPT !["state"] = NoFile]

\* a process os.kill can reach
Alive(w) == watcher[w].pc \notin {"absent", "off", "refused", "exited", "crashed"}

\* current_mtime != last_mtime
Changed(current_mtime, last_mtime) == current_mtime # last_mtime

\* change_count += 1
NextCountSame(change_count) == change_count

NextCount(change_count) == change_count + 1

\* watch() up to the first write_state: the path test (sys.exit(1) when the
\* file is not there), the first stat, the counters and the two signal handlers
watch_start(w) ==
    /\ watcher[w].pc = "off"
    /\ watcher' = [watcher EXCEPT ![w] =
           IF watched.exists
           THEN [pc |-> "i_open", last_mtime |-> watched.mtime, change_count |-> 0,
                 running |-> TRUE, fd |-> "none"]
           ELSE [@ EXCEPT !.pc = "refused"]]
    /\ UNCHANGED <<files, watched, stopper, observed, parserSide>>

\* write_state: open(tmp, "w") creates the file or truncates the one there
write_state_open(w) ==
    /\ watcher[w].pc \in {"i_open", "c_open"}
    /\ files' = [files EXCEPT ![TmpPath] = File(<<>>)]
    /\ watcher' = [watcher EXCEPT ![w].fd = TmpPath,
                                  ![w].pc = IF @ = "i_open" THEN "i_dump" ELSE "c_dump"]
    /\ UNCHANGED <<watched, stopper, observed, parserSide>>

\* write_state: json.dump and the close at the end of the with block
write_state_dump(w) ==
    /\ watcher[w].pc \in {"i_dump", "c_dump"}
    /\ files' = IF watcher[w].fd \in {"state", "tmp"}
                THEN [files EXCEPT ![watcher[w].fd] = File(dump(StateOf(w)))]
                ELSE files
    /\ watcher' = [watcher EXCEPT ![w].fd = "none",
                                  ![w].pc = IF @ = "i_dump" THEN "i_replace" ELSE "c_replace"]
    /\ UNCHANGED <<watched, stopper, observed, parserSide>>

\* write_state: os.replace(tmp, state_file); FileNotFoundError when tmp is
\* gone ends the process, through the finally clause once inside the try
write_state_replace(w) ==
    /\ watcher[w].pc \in {"i_replace", "c_replace"}
    /\ IF files[TmpPath].exists
       THEN /\ files' = IF TmpPath = "state" THEN files
                        ELSE [files EXCEPT !["state"] = files[TmpPath],
                                           ![TmpPath] = NoFile]
            /\ watcher' = [v \in Pids |->
                   IF v = w THEN [watcher[v] EXCEPT !.pc = "loop"]
                   ELSE [watcher[v] EXCEPT !.fd = Renamed(@, TmpPath, "state")]]
       ELSE /\ files' = files
            /\ watcher' = [watcher EXCEPT ![w].pc =
                   IF @ = "i_replace" THEN "crashed" ELSE "finally"]
    /\ UNCHANGED <<watched, stopper, observed, parserSide>>

\* while running:
watch_loop(w) ==
    /\ watcher[w].pc = "loop"
    /\ watcher' = [watcher EXCEPT ![w].pc =
           IF watcher[w].running THEN "poll" ELSE "finally"]
    /\ UNCHANGED <<files, watched, stopper, observed, parserSide>>

\* one pass of the loop body up to write_state: sleep, stat, compare
watch_poll(w) ==
    /\ watcher[w].pc = "poll"
    /\ watcher' = [watcher EXCEPT ![w] =
           IF ~watched.exists THEN [@ EXCEPT !.pc = "loop"]
           ELSE IF Changed(watched.mtime, @.last_mtime)
           THEN [@ EXCEPT !.last_mtime = watched.mtime,
                          !.change_count = NextCount(@),
                          !.pc = "c_open"]
           ELSE [@ EXCEPT !.pc = "loop"]]
    /\ UNCHANGED <<files, watched, stopper, observed, parserSide>>

\* finally: cleanup(state_file), and the process ends
watch_finally(w) ==
    /\ watcher[w].pc = "finally"
    /\ files' = cleanup(files)
    /\ watcher' = [v \in Pids |->
           IF v = w THEN [watcher[v] EXCEPT !.pc = "exited"]
           ELSE [watcher[v] EXCEPT !.fd = Unlinked(@, "state")]]
    /\ UNCHANGED <<watched, stopper, observed, parserSide>>

\* SIGINT or SIGTERM sent to the process from outside: handle_signal runs
handle_signal(w) ==
    /\ Alive(w)
    /\ watcher[w].running
    /\ watcher' = [watcher EXCEPT ![w].running = FALSE]
    /\ UNCHANGED <<files, watched, stopper, observed, parserSide>>

\* stop() up to os.kill: read_state, and sys.exit(1) when there is no state
stop_read ==
    /\ stopper.pc = "idle"
    /\ stopper.left > 0
    /\ stopper' =
           IF read_state(files["state"]) = <<>>
           THEN [stopper EXCEPT !.left = @ - 1]
           ELSE [pc |-> "kill", pid |-> read_state(files["state"])[1].pid,
                 left |-> stopper.left - 1]
    /\ UNCHANGED <<watcher, files, watched, observed, parserSide>>

\* stop(): os.kill(pid, SIGTERM), or cleanup on ProcessLookupError
stop_kill ==
    /\ stopper.pc = "kill"
    /\ stopper' = [stopper EXCEPT !.pc = "idle"]
    /\ IF Alive(stopper.pid)
       THEN /\ watcher' = [watcher EXCEPT ![stopper.pid].running = FALSE]
            /\ files' = files
       ELSE /\ files' = cleanup(files)
            /\ watcher' = [v \in Pids |->
                   [watcher[v] EXCEPT !.fd = Unlinked(@, "state")]]
    /\ UNCHANGED <<watched, observed, parserSide>>

\* the agent polling the state file: one open and read; a read that sees
\* what the last one saw is not a step
agent_poll ==
    /\ observed' = files["state"]
    /\ observed' # observed
    /\ UNCHANGED <<watcher, files, watched, stopper, parserSide>>

\* the editor saves the watched file
touch ==
    /\ watched.mtime <= MaxTouches
    /\ watched' = [exists |-> TRUE, mtime |-> watched.mtime + 1]
    /\ UNCHANGED <<watcher, files, stopper, observed, parserSide>>

\* the watched file is removed or renamed away
delete ==
    /\ watched.exists
    /\ watched' = [watched EXCEPT !.exists = FALSE]
    /\ UNCHANGED <<watcher, files, stopper, observed, parserSide>>

\* the steps of process w
WatcherStep(w) ==
    \/ watch_start(w)
    \/ write_state_open(w)
    \/ write_state_dump(w)
    \/ write_state_replace(w)
    \/ watch_loop(w)
    \/ watch_poll(w)
    \/ watch_finally(w)

NextWatch ==
    \/ \E w \in Pids : watch_start(w)
    \/ \E w \in Pids : write_state_open(w)
    \/ \E w \in Pids : write_state_dump(w)
    \/ \E w \in Pids : write_state_replace(w)
    \/ \E w \in Pids : watch_loop(w)
    \/ \E w \in Pids : watch_poll(w)
    \/ \E w \in Pids : watch_finally(w)
    \/ \E w \in Pids : handle_signal(w)
    \/ stop_read
    \/ stop_kill
    \/ agent_poll
    \/ touch
    \/ delete

\* watch() not yet called in the processes of `started`
InitWatchers(started) ==
    /\ ParseState(<<>>, "idle")
    /\ argv = <<>>
    /\ file_exists = TRUE
    /\ stdout = <<>>
    /\ stderr = <<>>
    /\ exit_status = <<>>
    /\ cli = "watch"
    /\ fmt = <<>>
    /\ watcher = [w \in Pids |->
           IF w \in started THEN [Absent EXCEPT !.pc = "off"] ELSE Absent]
    /\ files = [state |-> NoFile, tmp |-> NoFile]
    /\ watched \in {[exists |-> e, mtime |-> 1] : e \in BOOLEAN}
    /\ stopper = [pc |-> "idle", pid |-> 0, left |-> MaxStops]
    /\ observed = NoFile

\* one watcher on the state file
InitWatch == InitWatchers({1})

SpecWatch == InitWatch /\ [][NextWatch]_vars

\* two watchers started with the same --state path
InitShared == InitWatchers(Pids)

SpecShared == InitShared /\ [][NextWatch]_vars

\* every started process keeps running: the scheduler starves none
FairShared == SpecShared /\ \A w \in Pids : WF_vars(WatcherStep(w))

----------------------------------------------------------------------------
(* Properties of the Document and of the scan.                             *)

EndsWith(s, p) == Len(s) >= Len(p) /\ SubSeq(s, Len(s) - Len(p) + 1, Len(s)) = p

\* The block elements of html: its newline-separated pieces.
HtmlBlocks(h) == IF h = <<>> THEN <<>> ELSE SplitLines(h)

BlockTags ==
    { <<"p">>, <<"u", "l">>, <<"o", "l">>,
      <<"b", "l", "o", "c", "k", "q", "u", "o", "t", "e">> }
        \cup { <<"h", LevelDigit(n)>> : n \in 1..6 }

\* b is one <tag>...</tag> element of a block-level tag
IsHtmlBlock(b) ==
    \E tag \in BlockTags :
        /\ StartsWith(b, <<"<">> \o tag \o <<">">>)
        /\ EndsWith(b, <<"<", "/">> \o tag \o <<">">>)

Returned == pc = "done"

\* C1: total_blocks equals the number of HTML block elements in html (each an
\* h1-h6, blockquote, ul, ol or p element) plus the number of code_blocks
\* entries.
C1_TotalBlocks ==
    Returned =>
        /\ \A k \in 1..Len(HtmlBlocks(html)) : IsHtmlBlock(HtmlBlocks(html)[k])
        /\ total_blocks = Len(HtmlBlocks(html)) + Len(code_blocks)

\* a returned Document with two HTML blocks and a substituted block
C1_Witness ==
    Returned /\ Len(HtmlBlocks(html)) >= 2 /\ code_blocks # <<>>

\* the block_index values recorded in the three lists
RecordedIndexes ==
    {content_images[k].block_index : k \in 1..Len(content_images)}
        \cup {dividers[k] : k \in 1..Len(dividers)}
        \cup {code_blocks[k].block_index : k \in 1..Len(code_blocks)}

\* C2: every block_index recorded in content_images, dividers and code_blocks
\* is an integer between 0 and total_blocks.
C2_IndexRange ==
    Returned => \A n \in RecordedIndexes : n \in Nat /\ 0 <= n /\ n <= total_blocks

\* a returned Document with an entry in each list, a divider sitting at the
\* last index
C2_Witness ==
    /\ Returned
    /\ content_images # <<>> /\ code_blocks # <<>> /\ dividers # <<>>
    /\ total_blocks >= 1
    /\ \E k \in 1..Len(dividers) : dividers[k] = total_blocks

\* a closing fence whose captured text is empty after trimming
ClosesEmptyFence ==
    AtLine /\ IsFence(lines[i]) /\ in_code_block
        /\ Strip(Join(code_content, <<NL>>)) = <<>>

\* C3: across every step of the scan the counter never decreases; it grows by
\* one exactly when the step appends an HTML block or a code_blocks entry,
\* and a standalone image, a divider, a blank line, the title heading or an
\* empty fenced block leaves it unchanged.
C3_CounterSteps ==
    [][ /\ block_index' >= block_index
        /\ block_index' - block_index \in {0, 1}
        /\ block_index' - block_index =
              (Len(body_lines') - Len(body_lines))
                  + (Len(code_blocks') - Len(code_blocks))
        /\ (\/ (InNormal /\ ImgMatch(Strip(lines[i])))
            \/ (InNormal /\ IsDivider(Strip(lines[i])))
            \/ (InNormal /\ Strip(lines[i]) = <<>>)
            \/ (InNormal /\ TitleHit)
            \/ ClosesEmptyFence)
              => block_index' = block_index ]_vars

\* a scan in which the counter has advanced twice and that also met a divider
\* and a standalone image
C3_Witness ==
    /\ pc = "scan"
    /\ block_index >= 2
    /\ dividers # <<>>
    /\ first_image_seen

NonDecreasing(seq) == \A k \in 1..(Len(seq) - 1) : seq[k] <= seq[k + 1]

StrictlyIncreasing(seq) == \A k \in 1..(Len(seq) - 1) : seq[k] < seq[k + 1]

ImageIndexes == [k \in 1..Len(content_images) |-> content_images[k].block_index]

CodeIndexes == [k \in 1..Len(code_blocks) |-> code_blocks[k].block_index]

\* the last element of a non-empty sequence
Last(seq) == seq[Len(seq)]

\* C4: an entry is only ever appended, and its block_index is the counter at
\* that moment, which is the number of HTML blocks plus code_blocks entries
\* produced so far; so the indexes are non-decreasing along content_images
\* and dividers and strictly increasing along code_blocks.
C4_IndexAtEncounter ==
    [][ /\ content_images' # content_images =>
              /\ SubSeq(content_images', 1, Len(content_images)) = content_images
              /\ Len(content_images') = Len(content_images) + 1
              /\ Last(content_images').block_index = block_index
        /\ dividers' # dividers => dividers' = Append(dividers, block_index)
        /\ code_blocks' # code_blocks =>
              /\ SubSeq(code_blocks', 1, Len(code_blocks)) = code_blocks
              /\ Len(code_blocks') = Len(code_blocks) + 1
              /\ Last(code_blocks').block_index = block_index
        /\ block_index = Len(body_lines) + Len(code_blocks)
        /\ NonDecreasing(ImageIndexes')
        /\ NonDecreasing(dividers')
        /\ StrictlyIncreasing(CodeIndexes') ]_vars

\* two substituted blocks at different indexes, and a content image recorded
\* after the first of them
C4_Witness ==
    /\ Returned
    /\ Len(code_blocks) >= 2
    /\ \E k \in 1..Len(content_images) : content_images[k].block_index >= 1

\* lines i..j-1 hold no standalone image
NoImageIn(from, to) == \A k \in from..(to - 1) : ~ImgMatch(Strip(lines[k]))

\* C5: outside a fence, the first standalone image line sets cover_image and
\* adds nothing to content_images nor to the counter; every later one appends
\* exactly one content_images entry; no other step touches either field, and
\* cover_image never changes once set.
C5_CoverImage ==
    [][ /\ (InNormal /\ ImgMatch(Strip(lines[i])) /\ ~first_image_seen) =>
              /\ first_image_seen'
              /\ cover_image' = ResolveImage(ImgPath(Strip(lines[i])))
              /\ cover_image' # NoImage
              /\ content_images' = content_images
              /\ block_index' = block_index
              /\ i' = i + 1
        /\ (InNormal /\ ImgMatch(Strip(lines[i])) /\ first_image_seen) =>
              /\ Len(content_images') = Len(content_images) + 1
              /\ SubSeq(content_images', 1, Len(content_images)) = content_images
              /\ Last(content_images').path = ResolveImage(ImgPath(Strip(lines[i])))
              /\ i' = i + 1
        /\ ~(InNormal /\ ImgMatch(Strip(lines[i]))) =>
              /\ content_images' = content_images
              /\ cover_image' = cover_image
              /\ first_image_seen' = first_image_seen
              /\ (pc = "scan" /\ ~in_code_block) => NoImageIn(i + 1, i')
        /\ first_image_seen => (first_image_seen' /\ cover_image' = cover_image)
        /\ (~first_image_seen') => (cover_image' = NoImage /\ content_images' = <<>>)
      ]_vars

\* a cover image and two later images, after an HTML block
C5_Witness ==
    /\ Returned
    /\ first_image_seen
    /\ cover_image # NoImage
    /\ Len(content_images) >= 2
    /\ total_blocks >= 1

\* line k of ls lies inside a fence: an odd number of fence lines precede it
FencedAt(ls, k) == Cardinality({j \in 1..(k - 1) : IsFence(ls[j])}) % 2 = 1

\* the top-level heading lines outside any fence
TopHeadingLines ==
    {k \in 1..Len(lines) : ~IsFence(lines[k]) /\ ~FencedAt(lines, k) /\ H1Match(lines[k])}

\* the first of them, 0 when there is none
FirstTopHeading == IF TopHeadingLines = {} THEN 0 ELSE Min(TopHeadingLines)

\* the scan is at the first top-level heading line
AtFirstTopHeading == InNormal /\ i = FirstTopHeading

\* C6: title changes only at the first top-level heading line outside a
\* fence, which sets it to that line's text, emits no HTML and leaves the
\* counter alone; the returned title is that text, or empty when there is no
\* such line.
C6_TitleFirstHeading ==
    [][ /\ AtFirstTopHeading =>
              /\ title' = H1Text(lines[i])
              /\ body_lines' = body_lines
              /\ block_index' = block_index
        /\ ~AtFirstTopHeading => title' = title
        /\ Returned' =>
              title' = IF FirstTopHeading = 0 THEN <<>>
                       ELSE H1Text(lines[FirstTopHeading]) ]_vars

\* C7: with title already set, a top-level heading line outside a fence (one
\* with heading text) is appended to the HTML as an <h1> block and advances
\* the counter by one.
C7_LaterHeadingEmitted ==
    [][ (InNormal /\ H1Match(lines[i]) /\ H1Text(lines[i]) # <<>> /\ title # <<>>) =>
            /\ body_lines' = Append(body_lines,
                   HeadingBlock(1, inline_format(H1Text(lines[i]))))
            /\ block_index' = block_index + 1 ]_vars

\* the fields of the Document under construction
document == <<title, cover_image, content_images, code_blocks, dividers,
              body_lines, block_index>>

\* C8: every step at a non-blank line outside a fence, the title line aside,
\* changes the Document, and a line that none of the title, image, divider,
\* heading, quote, list and table branches takes is appended to the HTML
\* inside a <p> block.
C8_NoSilentDrop ==
    [][ /\ (InNormal /\ ~TitleHit /\ Strip(lines[i]) # <<>>) => document' # document
        /\ PastTable =>
              /\ Len(body_lines') = Len(body_lines) + 1
              /\ StartsWith(Last(body_lines'), <<"<", "p", ">">>) ]_vars

\* the scan is at a pipe-delimited line outside a fence, the first of a run
\* of n contiguous pipe-delimited lines
TableRunLength == TableRunEnd(lines, i) - i

AtTableRow == InNormal /\ IsTableRow(Strip(lines[i]))

\* C9: a pipe-delimited line that forms no table (a run of fewer than two
\* lines) is emitted as a <p> block, advances the counter by one and adds no
\* code_blocks entry.
C9_LoneRowIsParagraph ==
    [][ (AtTableRow /\ TableRunLength < 2) =>
            /\ Len(body_lines') = Len(body_lines) + 1
            /\ StartsWith(Last(body_lines'), <<"<", "p", ">">>)
            /\ block_index' = block_index + 1
            /\ code_blocks' = code_blocks ]_vars

\* the lines of the run at the cursor, as read
RunLines == [k \in 1..TableRunLength |-> lines[i + k - 1]]

\* the same lines, each trimmed of leading and trailing whitespace
RunLinesTrimmed == [k \in 1..TableRunLength |-> Strip(lines[i + k - 1])]

\* the step appends the one code_blocks entry of a table whose text is raw,
\* at the current counter, advances the counter and leaves the HTML alone
TableStored(raw) ==
    /\ code_blocks' = Append(code_blocks,
           [language |-> TableLang, code |-> raw, block_index |-> block_index])
    /\ block_index' = block_index + 1
    /\ body_lines' = body_lines
    /\ i' = i + TableRunLength

\* C10 as stated: a run of two or more pipe-delimited lines yields exactly one
\* entry with the table language at the current counter, whose text is the
\* original lines joined by newlines, unmodified; the counter advances by one
\* and html gets nothing.
C10_TableTextUnmodified ==
    [][ (AtTableRow /\ TableRunLength >= 2) =>
            TableStored(Join(RunLines, <<NL>>)) ]_vars

\* C10 as amended: the same, the text being the lines of the run each trimmed
\* of leading and trailing whitespace, joined by newlines.
C10_TableTextTrimmed ==
    [][ (AtTableRow /\ TableRunLength >= 2) =>
            TableStored(Join(RunLinesTrimmed, <<NL>>)) ]_vars

\* a table of a row and an indented separator row, stored after a paragraph
C10_Witness ==
    /\ Returned
    /\ lines = << <<"t">>, <<"|", "a", "|">>, <<" ", "|", "-", "|">> >>
    /\ code_blocks = << [language |-> TableLang,
                         code |-> <<"|", "a", "|", NL, "|", "-", "|">>,
                         block_index |-> 1] >>
    /\ total_blocks = 2

\* a separator row of a table: only pipes, dashes, colons and whitespace, with
\* at least one dash
IsSeparatorRow(s) ==
    /\ AllIn(s, 1, {"|", "-", ":"} \cup Whitespace)
    /\ \E k \in 1..Len(s) : s[k] = "-"

RunHasSeparator == \E k \in 1..TableRunLength : IsSeparatorRow(RunLinesTrimmed[k])

\* C11: a step at a run of pipe-delimited lines adds a code_blocks entry only
\* when the run has at least two lines and one of them is a separator row; a
\* run of two or more pipe-delimited lines without a separator row adds none.
C11_TableNeedsSeparator ==
    [][ (AtTableRow /\ code_blocks' # code_blocks) =>
            (TableRunLength >= 2 /\ RunHasSeparator) ]_vars

\* the step closes a fenced block
AtClosingFence == AtLine /\ in_code_block /\ IsFence(lines[i])

\* C12: the table language is reserved: a step that adds a code_blocks entry
\* gives it the table language exactly when the step stores a table run; the
\* entry of a fenced block never has it, whatever the tag of the fence.
C12_SentinelReserved ==
    [][ (code_blocks' # code_blocks) =>
            /\ (Last(code_blocks').language = TableLang) <=> AtTableRow
            /\ AtClosingFence => Last(code_blocks').language # TableLang ]_vars

\* C13: the step at a closing fence appends one code_blocks entry, holding the
\* captured text at the current counter, and advances the counter by one when
\* the captured text is non-empty after trimming; otherwise it appends nothing
\* and leaves the counter.
C13_FenceEntryIffText ==
    [][ AtClosingFence =>
            LET text == Join(code_content, <<NL>>)
            IN  IF Strip(text) # <<>>
                THEN /\ Len(code_blocks') = Len(code_blocks) + 1
                     /\ SubSeq(code_blocks', 1, Len(code_blocks)) = code_blocks
                     /\ Last(code_blocks').code = text
                     /\ Last(code_blocks').block_index = block_index
                     /\ block_index' = block_index + 1
                ELSE /\ code_blocks' = code_blocks
                     /\ block_index' = block_index ]_vars

\* a fenced block holding one line of whitespace was closed and left nothing
C13_Witness ==
    /\ Returned
    /\ lines = << Fence3, <<" ">>, Fence3 >>
    /\ code_blocks = <<>>
    /\ total_blocks = 0

\* no line from k to the end of the input is a fence line
NoFenceFrom(k) == \A j \in k..Len(lines) : ~IsFence(lines[j])

\* the input has ended inside a fenced block
EndsInsideFence == pc = "scan" /\ i > Len(lines) /\ in_code_block

\* C14: when a fence is open and no later line closes it, every step at a
\* remaining line only consumes the line: title, cover_image, content_images,
\* code_blocks, dividers, the HTML blocks and the counter stay as they are; at
\* the end of the input the parse can return, and it returns without a
\* code_blocks entry for the open block.
C14_UnterminatedFence ==
    /\ [](EndsInsideFence => ENABLED Return)
    /\ [][ /\ (AtLine /\ in_code_block /\ NoFenceFrom(i)) =>
                 /\ document' = document
                 /\ first_image_seen' = first_image_seen
                 /\ in_code_block'
                 /\ i' = i + 1
                 /\ pc' = "scan"
           /\ EndsInsideFence =>
                 /\ pc' = "done"
                 /\ document' = document
                 /\ total_blocks' = block_index
                 /\ html' = Join(body_lines, <<NL>>) ]_vars

\* a parse that returned with the fence of line 1 still open, a heading line
\* and an image line inside it
C14_Witness ==
    /\ Returned
    /\ in_code_block
    /\ lines = << Fence3, <<"#", " ", "A">>, <<"!", "[", "a", "]", "(", "x", ")">> >>
    /\ title = <<>>
    /\ cover_image = NoImage
    /\ code_blocks = <<>>
    /\ html = <<>>
    /\ total_blocks = 0

\* the step appends exactly one HTML block, opened by tag, advances the
\* counter by one and moves the cursor to next
OneBlock(tag, next) ==
    /\ Len(body_lines') = Len(body_lines) + 1
    /\ SubSeq(body_lines', 1, Len(body_lines)) = body_lines
    /\ StartsWith(Last(body_lines'), <<"<">> \o tag \o <<">">>)
    /\ block_index' = block_index + 1
    /\ i' = next

\* C15: a step at a blockquote line, an unordered item, an ordered item or a
\* paragraph line outside a fence (a list item being a line that begins, after
\* any indentation, with a list marker and a space; a paragraph line a
\* non-blank line that no other branch takes) consumes the whole maximal run of such lines
\* that starts there and emits exactly one block for it (blockquote, ul, ol,
\* p), advancing the counter once; the run of the other list kind that follows
\* is then met at its first line and gets a block of its own.
C15_OneBlockPerRun ==
    [][ /\ (InNormal /\ QuoteRun(lines[i])) =>
              OneBlock(<<"b", "l", "o", "c", "k", "q", "u", "o", "t", "e">>,
                       QuoteRunEnd(lines, i))
        /\ (InNormal /\ IsULRun(lines[i])) =>
              OneBlock(<<"u", "l">>, ULRunEnd(lines, i))
        /\ (InNormal /\ IsOLRun(lines[i])) =>
              OneBlock(<<"o", "l">>, OLRunEnd(lines, i))
        /\ (PastTable /\ IsParaRun(lines[i])
                      /\ ~IsULRun(lines[i]) /\ ~IsOLRun(lines[i])) =>
              OneBlock(<<"p">>, ParaRunEnd(lines, i)) ]_vars

\* the lines of a text
TextLines(text) == SplitLines(text)

\* the first line after line 1 that is a triple-dash marker line, 0 when
\* there is none
ClosingMarker(ls) ==
    IF \E k \in 2..Len(ls) : ls[k] = Dashes3
    THEN Min({k \in 2..Len(ls) : ls[k] = Dashes3})
    ELSE 0

\* the body of a text by marker lines: the text itself unless line 1 is a
\* marker line and a later marker line closes it; then the lines after the
\* closing marker line, leading blank lines removed
BodyByMarkerLines(text) ==
    LET ls == TextLines(text)
        k == ClosingMarker(ls)
    IN  IF ls[1] = Dashes3 /\ k # 0
        THEN LStripSet(Join(SubSeq(ls, k + 1, Len(ls)), <<NL>>), {NL})
        ELSE text

\* C16: the text that parse_markdown splits into lines is the body by marker
\* lines: only a whole triple-dash line after the first closes the
\* frontmatter, a triple dash inside another line does not.
C16_FrontmatterByLines ==
    pc = "scan" => lines = SplitLines(BodyByMarkerLines(content))

Markers == {"*", "~", BQ, "[", "]", "(", ")"}

\* positions a..b of t hold a non-empty stretch of characters that are no
\* markers
IsPlain(t, a, b) == a <= b /\ b <= Len(t) /\ \A k \in a..b : t[k] \notin Markers

SpanDelims == { <<"*", "*", "*">>, <<"*", "*">>, <<"*">>, <<"~", "~">>, <<BQ>> }

\* t from position p on is made of plain characters and complete spans: a
\* delimiter, plain text, the same delimiter; or a link [plain](plain)
RECURSIVE WellFormedFrom(_, _)
WellFormedFrom(t, p) ==
    IF p > Len(t) THEN TRUE
    ELSE IF t[p] \notin Markers THEN WellFormedFrom(t, p + 1)
    ELSE \/ \E d \in SpanDelims : \E q \in (p + Len(d) + 1)..Len(t) :
               /\ OccursAt(t, d, p)
               /\ IsPlain(t, p + Len(d), q - 1)
               /\ OccursAt(t, d, q)
               /\ WellFormedFrom(t, q + Len(d))
         \/ \E q \in (p + 2)..Len(t) : \E r \in (q + 3)..Len(t) :
               /\ t[p] = "["
               /\ IsPlain(t, p + 1, q - 1)
               /\ OccursAt(t, <<"]", "(">>, q)
               /\ IsPlain(t, q + 2, r - 1)
               /\ t[r] = ")"
               /\ WellFormedFrom(t, r + 1)

C18_Terminates ==
    /\ StrictlyIncreasing(visited)
    /\ \A k \in 1..Len(visited) : visited[k] \in 1..Len(lines)
    /\ Len(visited) <= Len(lines)
    /\ pc = "scan" => (visited = <<>> \/ Last(visited) < i)
    /\ (pc = "scan" /\ i > Len(lines)) => ENABLED Return
    /\ Returned => i = Len(lines) + 1

\* a Document returned after the loop went through six lines
C18_Witness ==
    /\ Returned
    /\ Len(lines) >= 6
    /\ Len(visited) = Len(lines)
    /\ i = Len(lines) + 1

\* the run was given the path of a file that does not exist
MissingFile == cli # "lib" /\ argv # <<>> /\ ~file_exists

\* the names of the members of a printed JSON object, in order
MemberNames(obj) == [k \in 1..Len(obj) |-> obj[k][1]]

DocumentFields ==
    <<"title", "cover_image", "content_images", "code_blocks", "dividers",
      "total_blocks", "html">>

\* C19: a command-line run given the path of a missing file never calls the
\* parser and never writes to standard output; it can report the error, and
\* once it has exited its status is not zero and standard error holds the
\* message. A run given an existing file, once it has exited, has printed
\* one JSON object whose members are the seven fields of the Document, with
\* the values parse_markdown returned.
C19_MissingFileOrDocument ==
    /\ MissingFile =>
          /\ pc = "idle"
          /\ lines = <<>> /\ visited = <<>>
          /\ stdout = <<>>
          /\ cli = "main" => ENABLED MainNotFound
          /\ cli = "exited" =>
                /\ Len(exit_status) = 1
                /\ exit_status[1] # 0
                /\ Len(stderr) = 1
                /\ stderr[1] = NotFoundMessage(argv[1])
    /\ (cli = "parsing" /\ Returned) => ENABLED MainPrint
    /\ (cli = "exited" /\ argv # <<>> /\ file_exists) =>
          /\ Returned
          /\ Len(stdout) = 1
          /\ MemberNames(stdout[1]) = DocumentFields
          /\ stdout[1][1][2] = title
          /\ stdout[1][3][2] = content_images
          /\ stdout[1][4][2] = code_blocks
          /\ stdout[1][5][2] = dividers
          /\ stdout[1][6][2] = total_blocks
          /\ stdout[1][7][2] = html
          /\ stderr = <<>>
          /\ exit_status = <<0>>

\* a run on a missing file that has exited with status 1
C19_Witness ==
    /\ MissingFile
    /\ cli = "exited"
    /\ exit_status = <<1>>
    /\ stderr # <<>>
    /\ stdout = <<>>

SchemeChars ==
    { "a", "b", "c", "d", "e", "f", "g", "h", "i", "j", "k", "l", "m", "n", "o",
      "p", "q", "r", "s", "t", "u", "v", "w", "x", "y", "z" }
        \cup Digits \cup {"+", ".", "-"}

\* the path carries a URL scheme: a letter, then scheme characters, then ://
HasScheme(path) ==
    LET k == Find(path, <<":", "/", "/">>, 1)
    IN  /\ k >= 2
        /\ path[1] \in SchemeChars \ (Digits \cup {"+", ".", "-"})
        /\ \A j \in 1..(k - 1) : path[j] \in SchemeChars

\* the step is taken by the image branch
AtImage == PastTitle /\ ImgMatch(Strip(lines[i]))

\* C20: the path recorded for a standalone image (as cover_image for the
\* first, in content_images for the others) is the path as written when it is
\* absolute or carries a URL scheme, whatever the scheme, and the normalized
\* join of the document's directory with it in every other case.
C20_PathResolution ==
    [][ AtImage =>
          LET written == ImgPath(Strip(lines[i]))
              expected == IF IsAbs(written) \/ HasScheme(written)
                          THEN written
                          ELSE NormJoin(MdDir, written)
          IN  IF first_image_seen
              THEN Last(content_images').path = expected
              ELSE cover_image' = expected ]_vars

\* the fence line that opened the block the cursor k is in: the last fence
\* line before k
OpeningFence(k) ==
    CHOOSE j \in 1..(k - 1) :
        IsFence(lines[j]) /\ \A m \in (j + 1)..(k - 1) : ~IsFence(lines[m])

\* the lines between the opening fence and the cursor, as read
FencedLines == SubSeq(lines, OpeningFence(i) + 1, i - 1)

\* C21: while a fence is open a step at a line that is no fence line keeps the
\* line as read and nothing else: title, cover_image, content_images,
\* code_blocks, dividers, the HTML blocks and the counter stay, whatever the
\* line looks like; and the entry added at the closing fence has for code
\* exactly the lines between the two fences joined by newlines.
C21_FencePrecedence ==
    [][ /\ (AtLine /\ in_code_block /\ ~IsFence(lines[i])) =>
              /\ code_content' = Append(code_content, lines[i])
              /\ document' = document
              /\ first_image_seen' = first_image_seen
              /\ in_code_block'
              /\ i' = i + 1
        /\ (AtClosingFence /\ code_blocks' # code_blocks) =>
              Last(code_blocks').code = Join(FencedLines, <<NL>>) ]_vars

\* a fenced block holding an indented heading line, stored as read
C21_Witness ==
    /\ Returned
    /\ lines = << Fence3, <<" ", "#", " ", "B">>, Fence3 >>
    /\ code_blocks = << [language |-> TextLang,
                         code |-> <<" ", "#", " ", "B">>,
                         block_index |-> 0] >>
    /\ title = <<>>
    /\ html = <<>>

\* the step is one taken by process w
Steps(w) == watcher'[w].pc # watcher[w].pc

\* C22: change_count starts at 0 and never decreases; a poll that sees an
\* mtime other than the last recorded one adds exactly one to it and records
\* the new mtime, and the write_state that ends that poll leaves both in the
\* state file; a poll that sees the same mtime, or no file, changes neither
\* the counters nor the state file and goes back to the loop test.
C22_ChangeCount ==
    [][\A w \in Pids :
        /\ (watcher[w].pc = "off" /\ Alive(w)') => watcher'[w].change_count = 0
        /\ Alive(w) => watcher'[w].change_count >= watcher[w].change_count
        /\ (watcher[w].pc = "poll" /\ Steps(w)) =>
              IF watched.exists /\ watched.mtime # watcher[w].last_mtime
              THEN /\ watcher'[w].change_count = watcher[w].change_count + 1
                   /\ watcher'[w].last_mtime = watched.mtime
                   /\ watcher'[w].pc = "c_open"
              ELSE /\ watcher'[w] = [watcher[w] EXCEPT !.pc = "loop"]
                   /\ files' = files
        /\ (watcher[w].pc = "c_replace" /\ Steps(w)) =>
              /\ watcher'[w] = [watcher[w] EXCEPT !.pc = "loop"]
              /\ read_state(files'["state"]) = <<StateOf(w)>>
      ]_vars

\* process w is inside the while loop of watch()
InLoop(w) == watcher[w].pc \in {"loop", "poll", "c_open", "c_dump", "c_replace"}

Complete(f) ==
    /\ f.exists
    /\ Len(f.text) = 1
    /\ \E w \in Pids : f.text[1].pid = w /\ f.text[1].status = "watching"

\* C24: whatever a reader finds at the state path while write_state runs is
\* no file or a whole state document, never a file opened for writing whose
\* document is not yet in it.
C24_AtomicUpdate == observed = NoFile \/ Complete(observed)

\* C25: while a watcher is inside its polling loop the state file is there
\* and holds that watcher's pid, so that stop() reads the pid and signals
\* the watcher.
C25_StateFileNamesWatcher ==
    \A w \in Pids :
        InLoop(w) =>
            /\ read_state(files["state"]) # <<>>
            /\ read_state(files["state"])[1].pid = w

====
